---- MODULE Spec2Model ----
(***************************************************************************)
(* Orders API (src/api/orders.js): one serverless handler that validates   *)
(* an order, GETs data/store-data.json from the document store, prepends   *)
(* the order and PUTs the document back with the sha it fetched.           *)
(*                                                                         *)
(* A request is a slot r of Req.  The handler is cut at its two awaits:    *)
(*   Receive  lines 54-99   everything up to the GET being issued          *)
(*   GetFile  lines 23-31, 100-105, 34-45  the store answers the GET, the  *)
(*            handler builds the new document and issues the PUT           *)
(*   PutFile  line 41       the store processes the PUT                    *)
(*   Respond  lines 46-50, 106-112  the handler reads the PUT's answer     *)
(* Spec is one request with every input, SpecConc is NReq interleaved      *)
(* requests, SpecSeq is NReq sequential calls.                             *)
(* JavaScript strings that the code builds by concatenation (ids, commit   *)
(* messages) are sequences of one-character strings; all other strings are *)
(* atoms.  An object is a function from its field names to their values,   *)
(* a missing field is a name outside its DOMAIN.                           *)
(***************************************************************************)
EXTENDS Integers, Sequences, FiniteSets, TLC

\* ------------------------------------------------------------- bounds
\* Number of request slots of the concurrent specification.
NReq == 3
\* Largest value Date.now() returns in the model (the clock starts at 9, so
\* that ids of one and of two digits both occur).
MaxClock == 10

Req == 1 .. NReq

\* ------------------------------------------------------------- values
NoHeader == "<no header>"
ShopOrigin == "https://shop.example"
RefOrigin == "https://ref.example"
DefaultOrigin == "https://example.com"
DefaultUrl == "https://example.com"

OriginHeaders == {NoHeader, ShopOrigin}
RefererHeaders ==
    {NoHeader, "https://shop.example/cart", "https://ref.example/page", "not a url"}

Methods == {"OPTIONS", "GET", "POST"}

EmptyObject == [f \in {} |-> <<>>]
OrderFields == {"fullName", "phone", "id", "status"}
FieldValues(f) ==
    CASE f = "fullName" -> {<<"A", "n", "n">>}
      [] f = "phone" -> {<<"5", "5", "5">>}
      [] f = "id" -> {<<>>, <<"c", "1">>}
      [] f = "status" -> {<<"p", "a", "i", "d">>}
AllFieldValues == UNION {FieldValues(f) : f \in OrderFields}
\* Every JSON object over the four fields the handler reads; id may be the
\* empty string (supplied but falsy).
OrderInputs ==
    UNION {{o \in [D -> AllFieldValues] : \A f \in D : o[f] \in FieldValues(f)} :
           D \in SUBSET OrderFields}

\* req.body: undefined, an object, an array, or a string (not JSON, the JSON
\* text null, the JSON text of an object).
BodyKinds == {"undefined", "object", "array", "badjson", "nulljson", "objjson"}
Bodies ==
    {[kind |-> k, obj |-> EmptyObject] : k \in {"undefined", "array", "badjson", "nulljson"}}
    \cup {[kind |-> k, obj |-> o] : k \in {"object", "objjson"}, o \in OrderInputs}

Inputs ==
    [method : Methods, origin : OriginHeaders, Referer : RefererHeaders, body : Bodies]

\* The inputs of the concurrent specification: POSTs of an order with a
\* caller's id, of one without, and of an invalid one.  The requests that end
\* before the GET touch nothing the requests share.
OrderA == [fullName |-> <<"A", "n", "n">>, id |-> <<"c", "1">>]
OrderN == [fullName |-> <<"A", "n", "n">>]
ConcInputs ==
    {[method |-> "POST", origin |-> NoHeader, Referer |-> NoHeader,
      body |-> [kind |-> "object", obj |-> o]] : o \in {OrderA, EmptyObject}}
    \cup {[method |-> "POST", origin |-> ShopOrigin, Referer |-> NoHeader,
           body |-> [kind |-> "objjson", obj |-> OrderN]]}

NoInput ==
    [method |-> "", origin |-> NoHeader, Referer |-> NoHeader,
     body |-> [kind |-> "undefined", obj |-> EmptyObject]]

\* ------------------------------------------------------------- strings
DigitChars == <<"0", "1", "2", "3", "4", "5", "6", "7", "8", "9">>
IsDigit(c) == \E i \in 1 .. 10 : DigitChars[i] = c

\* Number to decimal string, as 'ord-' + Date.now() converts it (line 95).
RECURSIVE Digits(_)
Digits(n) ==
    IF n < 10 THEN <<DigitChars[n + 1]>>
    ELSE Digits(n \div 10) \o <<DigitChars[(n % 10) + 1]>>

OrdPrefix == <<"o", "r", "d", "-">>
PendingStatus == <<"p", "e", "n", "d", "i", "n", "g">>
AddOrderPrefix == <<"A", "d", "d", " ", "o", "r", "d", "e", "r", " ">>

\* ------------------------------------------------------------- objects
\* o[f] in JavaScript: the value, or undefined (falsy) when f is missing.
\* Of the values of the model only the empty string is falsy.
Truthy(o, f) == f \in DOMAIN o /\ o[f] # <<>>

\* o.f = v
SetField(o, f, v) == [g \in DOMAIN o \cup {f} |-> IF g = f THEN v ELSE o[g]]

\* ------------------------------------------------------------- CORS
AllowOrigin == "Access-Control-Allow-Origin"
AllowMethods == "Access-Control-Allow-Methods"
AllowHeaders == "Access-Control-Allow-Headers"
MaxAge == "Access-Control-Max-Age"
CorsNames == {AllowOrigin, AllowMethods, AllowHeaders, MaxAge}

\* corsHeaders(origin): origin || '*' and the three fixed headers.
corsHeaders(origin) ==
    LET o == IF origin # "" THEN origin ELSE "*"
    IN  [h \in CorsNames |->
            CASE h = AllowOrigin -> o
              [] h = AllowMethods -> "GET, POST, OPTIONS"
              [] h = AllowHeaders -> "Content-Type"
              [] h = MaxAge -> "86400"]

\* new URL(s): the URLs of the model and their origins; any other string
\* makes the constructor throw a TypeError.
ParseURL(s) ==
    CASE s = "https://shop.example/cart" -> [ok |-> TRUE, origin |-> ShopOrigin]
      [] s = "https://ref.example/page" -> [ok |-> TRUE, origin |-> RefOrigin]
      [] s = DefaultUrl -> [ok |-> TRUE, origin |-> DefaultOrigin]
      [] OTHER -> [ok |-> FALSE, origin |-> ""]

\* Line 54.  || binds tighter than ?: , so the expression is
\*   (headers.origin || headers.Referer) ? new URL(headers.Referer || default).origin : '*'
\* and the URL constructor throws on a Referer that is no URL.
HandlerOrigin(in) ==
    IF in.origin # NoHeader \/ in.Referer # NoHeader
    THEN LET u == ParseURL(IF in.Referer # NoHeader THEN in.Referer ELSE DefaultUrl)
         IN  IF u.ok THEN [threw |-> FALSE, value |-> u.origin]
             ELSE [threw |-> TRUE, value |-> ""]
    ELSE [threw |-> FALSE, value |-> "*"]

\* ------------------------------------------------------------- the order
\* Line 82: an object (or array) body is taken as it is, anything else goes
\* through JSON.parse(req.body || '{}').  An array has none of the fields
\* the handler reads.
ParseBody(body) ==
    CASE body.kind = "object" -> [threw |-> FALSE, isNull |-> FALSE, obj |-> body.obj]
      [] body.kind = "array" -> [threw |-> FALSE, isNull |-> FALSE, obj |-> EmptyObject]
      [] body.kind = "undefined" -> [threw |-> FALSE, isNull |-> FALSE, obj |-> EmptyObject]
      [] body.kind = "objjson" -> [threw |-> FALSE, isNull |-> FALSE, obj |-> body.obj]
      [] body.kind = "nulljson" -> [threw |-> FALSE, isNull |-> TRUE, obj |-> EmptyObject]
      [] body.kind = "badjson" -> [threw |-> TRUE, isNull |-> FALSE, obj |-> EmptyObject]

\* Mutant of ValidOrder: the check of line 89 is left out.
SkipValidation(o) == TRUE

\* Line 89, negated: the order passes when fullName or phone is truthy.
ValidOrder(o) == Truthy(o, "fullName") \/ Truthy(o, "phone")

\* Mutant of NormalizeId: order.id = 'ord-' + Date.now(), whatever it was.
OverwriteId(o, t) == SetField(o, "id", OrdPrefix \o Digits(t))

\* An id from the clock in seconds: 'ord-' + Math.floor(Date.now() / 1000).
NormalizeIdBySecond(o, t) ==
    SetField(o, "id", IF Truthy(o, "id") THEN o.id ELSE OrdPrefix \o Digits(t \div 1000))

\* Line 95: order.id = order.id || 'ord-' + Date.now()
NormalizeId(o, t) ==
    SetField(o, "id", IF Truthy(o, "id") THEN o.id ELSE OrdPrefix \o Digits(t))

\* Line 96: order.status = order.status || 'pending'
NormalizeStatus(o) ==
    SetField(o, "status", IF Truthy(o, "status") THEN o.status ELSE PendingStatus)

NormalizeOrder(o, t) == NormalizeStatus(NormalizeId(o, t))

\* Mutant of Configured: GITHUB_REPO is not checked.
ConfiguredButRepo(e) == e.token /\ e.owner

\* Lines 68-73: all three of GITHUB_TOKEN, GITHUB_OWNER, GITHUB_REPO are set.
Configured(e) == e.token /\ e.owner /\ e.repo

\* ------------------------------------------------------------- the document
\* The stored file: its JSON text is an object (with an orders field that is
\* an array, something else, or missing, and possibly other fields), the
\* text null, or no JSON at all.
OldOrder ==
    [fullName |-> <<"B", "o", "b">>, id |-> <<"c", "0">>, status |-> PendingStatus]
OrdersValues ==
    {[kind |-> "absent", items |-> <<>>], [kind |-> "string", items |-> <<>>],
     [kind |-> "array", items |-> <<>>], [kind |-> "array", items |-> <<OldOrder>>]}
EmptyDoc == [orders |-> [kind |-> "absent", items |-> <<>>], products |-> "absent"]
Docs == [orders : OrdersValues, products : {"absent", "p1"}]
Contents ==
    {[kind |-> "object", doc |-> d] : d \in Docs}
    \cup {[kind |-> k, doc |-> EmptyDoc] : k \in {"null", "corrupt"}}

\* A decoding that takes any content for a document.
DecodeAnything(content) == [threw |-> FALSE, isNull |-> FALSE, doc |-> content.doc]

\* Lines 100-101: base64-decode and JSON.parse the content.  JSON.parse
\* throws on text that is no JSON.
Decode(content) ==
    IF content.kind = "corrupt" THEN [threw |-> TRUE, isNull |-> FALSE, doc |-> EmptyDoc]
    ELSE [threw |-> FALSE, isNull |-> content.kind = "null", doc |-> content.doc]

\* Mutant of EnsureOrders: data.orders = [] whatever it was.
ResetOrders(d) == [d EXCEPT !.orders = [kind |-> "array", items |-> <<>>]]

\* The document as decoded, whatever its orders field is.
KeepOrders(d) == d

\* Line 102: if (!Array.isArray(data.orders)) data.orders = []
EnsureOrders(d) ==
    IF d.orders.kind = "array" THEN d
    ELSE [d EXCEPT !.orders = [kind |-> "array", items |-> <<>>]]

\* Mutant of Unshift: data.orders = [order]
ReplaceOrders(d, o) == [d EXCEPT !.orders.items = <<o>>]

\* Mutant of Unshift: data.orders.push(order)
PushOrder(d, o) == [d EXCEPT !.orders.items = @ \o <<o>>]

\* Line 103: data.orders.unshift(order)
Unshift(d, o) == [d EXCEPT !.orders.items = <<o>> \o @]

\* A serialisation that writes the orders alone.
EncodeOrdersOnly(d) ==
    [kind |-> "object", doc |-> [orders |-> d.orders, products |-> "absent"]]

\* Line 104 and line 37: JSON.stringify and base64 of the document.
Encode(d) == [kind |-> "object", doc |-> d]

\* Line 105: the version token handed to putFile is the fetched file's sha.
PutSha(file) == file.sha

\* Line 105: the commit message.
CommitMessage(o) == AddOrderPrefix \o o.id

\* Lines 35-40: the body of the PUT; sha is included only when truthy.
PutBody(content, sha, message) ==
    [message |-> message, content |-> content, hasSha |-> sha # 0, sha |-> sha]

\* The store's version check on a PUT: the sha must be supplied and be the
\* current one.
ShaAccepted(body, current) == body.hasSha /\ body.sha = current

\* ------------------------------------------------------------- state
VARIABLES
    env,        \* process.env: which of the three required values are set
    store,      \* the document store: the file's content and its version (sha)
    now,        \* the last value Date.now() returned
    pc,         \* where each request's handler is
    req,        \* each request's method, headers and body
    loc,        \* each handler's locals: origin, order, the value Date.now()
                \* returned (0: not called), file, the PUT's body, res.ok
    resp,       \* the responses each handler has sent
    gets,       \* GETs each request has issued to the store
    puts,       \* PUTs each request has issued to the store
    applied     \* history: the requests whose PUT the store applied, in order

vars == <<env, store, now, pc, req, loc, resp, gets, puts, applied>>

NoFile == [sha |-> 0, content |-> [kind |-> "corrupt", doc |-> EmptyDoc]]
NoPut == PutBody([kind |-> "corrupt", doc |-> EmptyDoc], 0, <<>>)
NoLoc ==
    [origin |-> "", order |-> EmptyObject, stamp |-> 0, file |-> NoFile, put |-> NoPut,
     putStatus |-> 0]

Envs == [token : BOOLEAN, owner : BOOLEAN, repo : BOOLEAN]

Init ==
    /\ env \in Envs
    /\ store \in [sha : {1}, content : Contents]
    /\ now = 9
    /\ pc = [r \in Req |-> "idle"]
    /\ req = [r \in Req |-> NoInput]
    /\ loc = [r \in Req |-> NoLoc]
    /\ resp = [r \in Req |-> <<>>]
    /\ gets = [r \in Req |-> 0]
    /\ puts = [r \in Req |-> 0]
    /\ applied = <<>>

Ended(r) == pc[r] \in {"done", "crashed"}

\* ------------------------------------------------------------- responses
\* res.status(s) with the CORS headers set and no body (lines 57-59).
EndResponse(s, origin) ==
    [status |-> s, headers |-> corsHeaders(origin), hasBody |-> FALSE, body |-> EmptyObject]

\* res.status(s).json(b) with the CORS headers set.
JsonResponse(s, origin, b) ==
    [status |-> s, headers |-> corsHeaders(origin), hasBody |-> TRUE, body |-> b]

\* The handler of request r sends rsp and returns.
Send(r, rsp) ==
    /\ resp' = [resp EXCEPT ![r] = Append(@, rsp)]
    /\ pc' = [pc EXCEPT ![r] = "done"]

\* The catch block, lines 108-112.
FailedToSave(r, origin, detail) ==
    Send(r, JsonResponse(500, origin, [error |-> "Failed to save order", detail |-> detail]))

\* An exception leaves the handler: no response is sent by it.
Escape(r) ==
    /\ pc' = [pc EXCEPT ![r] = "crashed"]
    /\ resp' = resp

Arrive(r, in) ==
    /\ pc[r] = "idle"
    /\ req' = [req EXCEPT ![r] = in]

\* ------------------------------------------------------------- Receive
\* Line 54 throws: new URL() on a Referer that is no URL.
OriginThrows(r, in) ==
    /\ Arrive(r, in)
    /\ HandlerOrigin(in).threw
    /\ Escape(r)
    /\ UNCHANGED <<env, store, now, loc, gets, puts, applied>>

\* Lines 56-60.
HandlePreflight(r, in) ==
    /\ Arrive(r, in)
    /\ ~HandlerOrigin(in).threw
    /\ in.method = "OPTIONS"
    /\ Send(r, EndResponse(204, HandlerOrigin(in).value))
    /\ UNCHANGED <<env, store, now, loc, gets, puts, applied>>

\* Lines 62-66.
RejectUnsupportedMethod(r, in) ==
    /\ Arrive(r, in)
    /\ ~HandlerOrigin(in).threw
    /\ in.method \notin {"OPTIONS", "POST"}
    /\ Send(r, JsonResponse(405, HandlerOrigin(in).value, [error |-> "Method not allowed"]))
    /\ UNCHANGED <<env, store, now, loc, gets, puts, applied>>

Posted(r, in) ==
    /\ Arrive(r, in)
    /\ ~HandlerOrigin(in).threw
    /\ in.method = "POST"

\* Lines 68-78.
RejectUnconfigured(r, in) ==
    /\ Posted(r, in)
    /\ ~Configured(env)
    /\ Send(r, JsonResponse(500, HandlerOrigin(in).value,
                            [error |-> "Orders API not configured (missing env)"]))
    /\ UNCHANGED <<env, store, now, loc, gets, puts, applied>>

\* Lines 80-87.
RejectInvalidJson(r, in) ==
    /\ Posted(r, in)
    /\ Configured(env)
    /\ ParseBody(in.body).threw
    /\ Send(r, JsonResponse(400, HandlerOrigin(in).value, [error |-> "Invalid JSON body"]))
    /\ UNCHANGED <<env, store, now, loc, gets, puts, applied>>

Parsed(r, in) ==
    /\ Posted(r, in)
    /\ Configured(env)
    /\ ~ParseBody(in.body).threw

\* Line 89 on an order that is null: order.fullName throws a TypeError
\* outside any try block.
NullOrderThrows(r, in) ==
    /\ Parsed(r, in)
    /\ ParseBody(in.body).isNull
    /\ Escape(r)
    /\ UNCHANGED <<env, store, now, loc, gets, puts, applied>>

\* Lines 89-93.
RejectInvalidOrder(r, in) ==
    /\ Parsed(r, in)
    /\ ~ParseBody(in.body).isNull
    /\ ~ValidOrder(ParseBody(in.body).obj)
    /\ Send(r, JsonResponse(400, HandlerOrigin(in).value,
                            [error |-> "Order must include fullName and phone"]))
    /\ UNCHANGED <<env, store, now, loc, gets, puts, applied>>

\* Lines 95-99 and 22-25: the order is normalised (Date.now() returns t) and
\* the GET is issued.
IssueGet(r) == gets' = [gets EXCEPT ![r] = @ + 1]

AcceptOrder(r, in, t) ==
    /\ Parsed(r, in)
    /\ ~ParseBody(in.body).isNull
    /\ ValidOrder(ParseBody(in.body).obj)
    /\ Truthy(ParseBody(in.body).obj, "id") => t = now    \* Date.now() is not called
    /\ now' = t
    /\ loc' = [loc EXCEPT ![r] = [NoLoc EXCEPT !.origin = HandlerOrigin(in).value,
                                               !.order = NormalizeOrder(ParseBody(in.body).obj, t),
                                               !.stamp = IF Truthy(ParseBody(in.body).obj, "id")
                                                         THEN 0 ELSE t]]
    /\ IssueGet(r)
    /\ pc' = [pc EXCEPT ![r] = "get"]
    /\ UNCHANGED <<env, store, resp, puts, applied>>

\* The synchronous part of the handler, lines 54-99.
Receive(r, in, t) ==
    \/ OriginThrows(r, in)
    \/ HandlePreflight(r, in)
    \/ RejectUnsupportedMethod(r, in)
    \/ RejectUnconfigured(r, in)
    \/ RejectInvalidJson(r, in)
    \/ NullOrderThrows(r, in)
    \/ RejectInvalidOrder(r, in)
    \/ AcceptOrder(r, in, t)

\* ------------------------------------------------------------- GetFile
\* Lines 26-29: the store answers the GET with a non-success status; getFile
\* throws and the catch block answers 500.
GetFails(r) ==
    /\ pc[r] = "get"
    /\ FailedToSave(r, loc[r].origin, "GitHub GET failed")
    /\ UNCHANGED <<env, store, now, req, loc, gets, puts, applied>>

\* Lines 100-102: the content is no JSON (JSON.parse throws) or is the JSON
\* text null (data.orders throws); the catch block answers 500.
GetUndecodable(r) ==
    /\ pc[r] = "get"
    /\ Decode(store.content).threw \/ Decode(store.content).isNull
    /\ FailedToSave(r, loc[r].origin, "document not decodable")
    /\ UNCHANGED <<env, store, now, req, loc, gets, puts, applied>>

IssuePut(r) == puts' = [puts EXCEPT ![r] = @ + 1]

\* Lines 30, 100-105 and 34-45: the store answers with the content and its
\* sha; the handler prepends the order and issues the PUT.
GetThenPut(r) ==
    /\ pc[r] = "get"
    /\ ~Decode(store.content).threw
    /\ ~Decode(store.content).isNull
    /\ LET file == [sha |-> store.sha, content |-> store.content]
           data == Unshift(EnsureOrders(Decode(file.content).doc), loc[r].order)
       IN  loc' = [loc EXCEPT ![r].file = file,
                              ![r].put = PutBody(Encode(data), PutSha(file),
                                                 CommitMessage(loc[r].order))]
    /\ IssuePut(r)
    /\ pc' = [pc EXCEPT ![r] = "put"]
    /\ UNCHANGED <<env, store, now, req, resp, gets, applied>>

GetFile(r) ==
    \/ GetFails(r)
    \/ GetUndecodable(r)
    \/ GetThenPut(r)

\* ------------------------------------------------------------- PutFile
\* Line 41 at the store: the PUT is applied when the sha is the current one;
\* the content is replaced and the version advances.
PutApplied(r) ==
    /\ pc[r] = "put"
    /\ ShaAccepted(loc[r].put, store.sha)
    /\ store' = [sha |-> store.sha + 1, content |-> loc[r].put.content]
    /\ applied' = Append(applied, r)
    /\ loc' = [loc EXCEPT ![r].putStatus = 200]
    /\ pc' = [pc EXCEPT ![r] = "putresp"]
    /\ UNCHANGED <<env, now, req, resp, gets, puts>>

\* Line 41 at the store: the sha is stale or missing, the store answers 409.
PutConflict(r) ==
    /\ pc[r] = "put"
    /\ ~ShaAccepted(loc[r].put, store.sha)
    /\ loc' = [loc EXCEPT ![r].putStatus = 409]
    /\ pc' = [pc EXCEPT ![r] = "putresp"]
    /\ UNCHANGED <<env, store, now, req, resp, gets, puts, applied>>

\* Line 41 at the store: the store refuses the PUT for any other reason
\* (credentials, outage) and answers with another non-success status.
PutRefused(r) ==
    /\ pc[r] = "put"
    /\ loc' = [loc EXCEPT ![r].putStatus = 503]
    /\ pc' = [pc EXCEPT ![r] = "putresp"]
    /\ UNCHANGED <<env, store, now, req, resp, gets, puts, applied>>

PutFile(r) ==
    \/ PutApplied(r)
    \/ PutConflict(r)
    \/ PutRefused(r)

\* The store's answers to the PUT of a request that no other request's PUT
\* can overtake (one request, or sequential calls): the sha it fetched is
\* still the current one (NeverStaleAlone), so PutConflict is never enabled.
PutFileAlone(r) ==
    \/ PutApplied(r)
    \/ PutRefused(r)

NeverStaleAlone == \A r \in Req : pc[r] = "put" => ShaAccepted(loc[r].put, store.sha)

\* res.ok of the PUT's answer (line 46).
PutOk(r) == loc[r].putStatus = 200

\* ------------------------------------------------------------- Respond
\* Mutant of OnPutFailure: the handler fetches the document again.
RetryOnPutFailure(r) ==
    /\ pc' = [pc EXCEPT ![r] = "get"]
    /\ gets' = [gets EXCEPT ![r] = @ + 1]
    /\ UNCHANGED <<resp, puts, loc>>

\* Lines 46-49, 108-112: res.ok is false; putFile throws, the catch block
\* answers 500 and the handler returns.
OnPutFailure(r) ==
    /\ FailedToSave(r, loc[r].origin, "GitHub PUT failed")
    /\ UNCHANGED <<gets, puts, loc>>

PutFailed(r) ==
    /\ pc[r] = "putresp"
    /\ ~PutOk(r)
    /\ OnPutFailure(r)
    /\ UNCHANGED <<env, store, now, req, applied>>

\* Lines 50, 106-107: res.json() is read and the handler answers 200.
OrderSaved(r) ==
    /\ pc[r] = "putresp"
    /\ PutOk(r)
    /\ Send(r, JsonResponse(200, loc[r].origin, [ok |-> TRUE, id |-> loc[r].order.id]))
    /\ UNCHANGED <<env, store, now, req, loc, gets, puts, applied>>

\* Line 50, 108-112: the PUT was applied but res.json() throws on its answer;
\* the catch block answers 500.
PutAnswerUnreadable(r) ==
    /\ pc[r] = "putresp"
    /\ PutOk(r)
    /\ FailedToSave(r, loc[r].origin, "PUT response not readable")
    /\ UNCHANGED <<env, store, now, req, loc, gets, puts, applied>>

Respond(r) ==
    \/ PutFailed(r)
    \/ OrderSaved(r)
    \/ PutAnswerUnreadable(r)

\* ------------------------------------------------------------- specifications
Clock == now .. MaxClock

\* One request, with every input of Inputs.
Next ==
    \/ /\ pc[1] = "idle"
       /\ \E in \in Inputs, t \in Clock : Receive(1, in, t)
    \/ GetFile(1)
    \/ PutFileAlone(1)
    \/ Respond(1)

Spec == Init /\ [][Next]_vars

\* Requests are numbered in the order in which they arrive.
NextToArrive(r) == pc[r] = "idle" /\ \A q \in 1 .. r - 1 : pc[q] # "idle"

\* NReq requests, interleaved at their awaits, with the inputs of ConcInputs.
NextConc ==
    \/ \E r \in Req :
          /\ NextToArrive(r)
          /\ \E in \in ConcInputs, t \in Clock : Receive(r, in, t)
    \/ \E r \in Req : GetFile(r)
    \/ \E r \in Req : PutFile(r)
    \/ \E r \in Req : Respond(r)

\* The concurrent specification starts from fewer documents: one that is no
\* JSON, one without an orders array, one with an order in it.
ConcContents ==
    {[kind |-> "corrupt", doc |-> EmptyDoc],
     [kind |-> "object", doc |-> [orders |-> [kind |-> "absent", items |-> <<>>], products |-> "p1"]],
     [kind |-> "object", doc |-> [orders |-> [kind |-> "array", items |-> <<OldOrder>>], products |-> "absent"]]}

InitConc == Init /\ store.content \in ConcContents

SpecConc == InitConc /\ [][NextConc]_vars

\* Sequential calls: a request arrives only when no other is being handled.
NextSeq ==
    \/ \E r \in Req :
          /\ NextToArrive(r)
          /\ \A q \in Req : pc[q] = "idle" \/ Ended(q)
          /\ \E in \in ConcInputs, t \in Clock : Receive(r, in, t)
    \/ \E r \in Req : GetFile(r)
    \/ \E r \in Req : PutFileAlone(r)
    \/ \E r \in Req : Respond(r)

SpecSeq == InitConc /\ [][NextSeq]_vars

\* ------------------------------------------------------------- reading the state
\* The orders sequence of the stored document (empty when the document has
\* none).
StoreOrders ==
    IF store.content.kind = "object" /\ store.content.doc.orders.kind = "array"
    THEN store.content.doc.orders.items
    ELSE <<>>

\* The orders sequence of the document request r fetched.
FetchedOrders(r) ==
    IF loc[r].file.content.kind = "object" /\ loc[r].file.content.doc.orders.kind = "array"
    THEN loc[r].file.content.doc.orders.items
    ELSE <<>>

Count(seq, x) == Cardinality({i \in 1 .. Len(seq) : seq[i] = x})
WasApplied(r) == \E i \in 1 .. Len(applied) : applied[i] = r
PutIssued(r) == puts[r] > 0
PutProcessed(r) == PutIssued(r) /\ pc[r] \in {"putresp", "done"}
Answered(r, s) == Len(resp[r]) = 1 /\ resp[r][1].status = s
AnsweredError(r, s, msg) ==
    /\ Answered(r, s)
    /\ resp[r][1].hasBody
    /\ "error" \in DOMAIN resp[r][1].body
    /\ resp[r][1].body.error = msg

\* The order of every applied PUT is still in the document, the newest first,
\* above what the document held before.
NoLostUpdate ==
    /\ Len(StoreOrders) >= Len(applied)
    /\ \A i \in 1 .. Len(applied) :
          StoreOrders[Len(applied) - i + 1] = loc[applied[i]].order

\* ------------------------------------------------------------- C1
\* C1 as stated: of two requests that fetched the same version and whose PUTs
\* the store has processed (neither refused for a reason other than the
\* version check), exactly one PUT is applied and the other request, once it
\* has responded, responded 500 'Failed to save order'; and no update is lost.
C1_ExactlyOneOfTwo ==
    /\ \A a, b \in Req :
          ( /\ a # b
            /\ PutProcessed(a) /\ PutProcessed(b)
            /\ loc[a].file.sha = loc[b].file.sha
            /\ loc[a].putStatus # 503 /\ loc[b].putStatus # 503 )
          => \E w \in {a, b} :
                /\ WasApplied(w)
                /\ \A l \in {a, b} \ {w} :
                      /\ ~WasApplied(l)
                      /\ pc[l] = "done" => AnsweredError(l, 500, "Failed to save order")
    /\ NoLostUpdate

\* C1, amended: of the requests that fetched the same version at most one PUT
\* is applied, and when the store has refused the PUTs of two of them for the
\* stale version alone, a third request's PUT was applied to that version;
\* every request whose PUT was not applied responds 500 'Failed to save
\* order'; and no applied PUT removes or replaces an order an earlier one
\* placed.
C1_AtMostOnePerVersion ==
    /\ \A a, b \in Req :
          (a # b /\ PutIssued(a) /\ PutIssued(b) /\ loc[a].file.sha = loc[b].file.sha)
          => /\ ~(WasApplied(a) /\ WasApplied(b))
             /\ (loc[a].putStatus = 409 /\ loc[b].putStatus = 409)
                => \E c \in Req \ {a, b} :
                      WasApplied(c) /\ loc[c].file.sha = loc[a].file.sha
    /\ \A r \in Req :
          (PutProcessed(r) /\ ~WasApplied(r) /\ pc[r] = "done")
          => AnsweredError(r, 500, "Failed to save order")
    /\ NoLostUpdate

\* Two requests fetched the same version, one PUT was applied and the other
\* request lost the race and responded 500, in a document that two PUTs have
\* been applied to.
C1_Witness ==
    \E a, b \in Req :
        /\ a # b
        /\ PutIssued(a) /\ PutIssued(b)
        /\ loc[a].file.sha = loc[b].file.sha
        /\ WasApplied(a)
        /\ loc[b].putStatus = 409
        /\ AnsweredError(b, 500, "Failed to save order")
        /\ Len(applied) >= 2

\* ------------------------------------------------------------- C2
\* What the document held below the orders of the applied PUTs.
BaseOrders == SubSeq(StoreOrders, Len(applied) + 1, Len(StoreOrders))

\* C2 as stated: in the state in which a request sends its 200, the stored
\* orders sequence holds that request's order exactly once and as its first
\* element.
C2_OnceAtHeadOnResponse ==
    [][\A r \in Req :
          OrderSaved(r)
          => /\ Count(StoreOrders, loc[r].order) = 1
             /\ StoreOrders # <<>>
             /\ Head(StoreOrders) = loc[r].order]_vars

\* C2, amended: in the state in which a request sends its 200, the stored
\* orders sequence holds that request's order; it is the first element when
\* no other request's PUT has been applied since this request's, and it
\* occurs as many times as PUTs carrying an equal order were applied and the
\* document held equal orders before (once, when there is no equal order).
C2_StoredOnResponse ==
    [][\A r \in Req :
          OrderSaved(r)
          => /\ Count(StoreOrders, loc[r].order) >= 1
             /\ applied[Len(applied)] = r => Head(StoreOrders) = loc[r].order
             /\ Count(StoreOrders, loc[r].order)
                  = Cardinality({i \in 1 .. Len(applied) :
                                    loc[applied[i]].order = loc[r].order})
                    + Count(BaseOrders, loc[r].order)]_vars

\* A request has responded 200, its PUT is the last one applied and its order
\* heads a document that held an order before, once.
C2_Witness ==
    \E r \in Req :
        /\ Answered(r, 200)
        /\ Len(applied) > 0
        /\ applied[Len(applied)] = r
        /\ Len(StoreOrders) >= 2
        /\ Head(StoreOrders) = loc[r].order
        /\ Count(StoreOrders, loc[r].order) = 1

\* ------------------------------------------------------------- C3
\* C3: when the PUT of b is the last one applied, it followed the PUT of a
\* with no other in between, and both requests have responded 200 (the calls
\* are sequential), the stored orders sequence is b's order, a's order, and
\* then the sequence a fetched (empty if a fetched none), in its order.
C3_NewestFirst ==
    \A i \in 1 .. Len(applied) - 1 :
        LET a == applied[i]
            b == applied[i + 1]
        IN  (i + 1 = Len(applied) /\ Answered(a, 200) /\ Answered(b, 200))
            => StoreOrders = <<loc[b].order, loc[a].order>> \o FetchedOrders(a)

\* Two sequential calls have responded 200, the second with another order
\* than the first, on a document that held an order before them.
C3_Witness ==
    /\ Len(applied) = 2
    /\ Answered(applied[1], 200)
    /\ Answered(applied[2], 200)
    /\ loc[applied[1]].order # loc[applied[2]].order
    /\ FetchedOrders(applied[1]) = <<OldOrder>>
    /\ Len(StoreOrders) = 3

\* ------------------------------------------------------------- C4
\* C4: a request issues at most one GET and at most one PUT; once the store
\* has rejected its PUT (stale sha, or any other non-success status) the
\* handler does nothing but respond, and the response is 500 'Failed to save
\* order', with the one GET and the one PUT still all it has issued.
C4_NoRetry ==
    \A r \in Req :
        /\ gets[r] <= 1
        /\ puts[r] <= 1
        /\ loc[r].putStatus \in {409, 503}
           => /\ pc[r] \in {"putresp", "done"}
              /\ gets[r] = 1 /\ puts[r] = 1
              /\ pc[r] = "done" => AnsweredError(r, 500, "Failed to save order")

\* One request's PUT was rejected for its stale sha, another's was refused
\* by the store for another reason, and both have responded 500.
C4_Witness ==
    \E a, b \in Req :
        /\ loc[a].putStatus = 409
        /\ loc[b].putStatus = 503
        /\ AnsweredError(a, 500, "Failed to save order")
        /\ AnsweredError(b, 500, "Failed to save order")

\* ------------------------------------------------------------- C5
AllEnvSet == env.token /\ env.owner /\ env.repo

\* The body of request r holds an order (an object, an array, a JSON text of
\* an object, or nothing, which stands for {}) without a truthy fullName and
\* without a truthy phone.
MissingBoth(r) ==
    /\ req[r].body.kind \in {"undefined", "object", "array", "objjson"}
    /\ ~("fullName" \in DOMAIN req[r].body.obj /\ req[r].body.obj.fullName # <<>>)
    /\ ~("phone" \in DOMAIN req[r].body.obj /\ req[r].body.obj.phone # <<>>)

NoStoreCall(r) == gets[r] = 0 /\ puts[r] = 0

NotConfiguredError == "Orders API not configured (missing env)"

C7_Preflight204 ==
    \A r \in Req :
        (req[r].method = "OPTIONS" /\ Ended(r))
        => /\ Answered(r, 204)
           /\ ~resp[r][1].hasBody
           /\ DOMAIN resp[r][1].headers = CorsNames
           /\ NoStoreCall(r)

\* ------------------------------------------------------------- C8
\* C8: on every response Access-Control-Allow-Origin is the request's origin
\* header when it has one and '*' when it has none.
C8_EchoesOrigin ==
    \A r \in Req :
        \A i \in 1 .. Len(resp[r]) :
            resp[r][i].headers[AllowOrigin]
                = IF req[r].origin # NoHeader THEN req[r].origin ELSE "*"

\* ------------------------------------------------------------- C9
\* C9: a handler that has ended has sent exactly one response, with the CORS
\* headers, and no exception has left it.
C9_OneResponse ==
    \A r \in Req :
        Ended(r)
        => /\ pc[r] # "crashed"
           /\ Len(resp[r]) = 1
           /\ DOMAIN resp[r][1].headers = CorsNames

\* ------------------------------------------------------------- C10
\* 'ord-' followed by digits.
IsOrdId(id) ==
    /\ Len(id) > Len(OrdPrefix)
    /\ SubSeq(id, 1, Len(OrdPrefix)) = OrdPrefix
    /\ \A i \in Len(OrdPrefix) + 1 .. Len(id) : IsDigit(id[i])

\* The order the body of request r holds.
SentOrder(r) == req[r].body.obj

\* The id of the response, of the order at the head of the document the PUT
\* carries, and of the commit message are the same.
SameIdEverywhere(r) ==
    /\ loc[r].put.content.doc.orders.items[1].id = resp[r][1].body.id
    /\ loc[r].put.message = AddOrderPrefix \o resp[r][1].body.id

\* C10 as stated: a 200 returns an id of the form ord-<digits> when the
\* caller supplied no id and the caller's id unchanged otherwise, and that id
\* is the id written to the document and named in the commit message.
C10_IdSuppliedOrAssigned ==
    \A r \in Req :
        Answered(r, 200)
        => /\ IF "id" \in DOMAIN SentOrder(r)
              THEN resp[r][1].body.id = SentOrder(r).id
              ELSE IsOrdId(resp[r][1].body.id)
           /\ SameIdEverywhere(r)

\* C10, amended: a 200 returns an id of the form ord-<digits> when the caller
\* supplied no id or a falsy one (the empty string) and the caller's id
\* unchanged otherwise; that id is the id written to the document and named
\* in the commit message.
C10_IdTruthyOrAssigned ==
    \A r \in Req :
        Answered(r, 200)
        => /\ IF "id" \in DOMAIN SentOrder(r) /\ SentOrder(r).id # <<>>
              THEN resp[r][1].body.id = SentOrder(r).id
              ELSE IsOrdId(resp[r][1].body.id)
           /\ SameIdEverywhere(r)

\* A 200 has returned the two-digit id ord-10 for an order sent without id.
C10_Witness ==
    \E r \in Req :
        /\ Answered(r, 200)
        /\ "id" \notin DOMAIN SentOrder(r)
        /\ resp[r][1].body.id = <<"o", "r", "d", "-", "1", "0">>
        /\ SameIdEverywhere(r)

\* ------------------------------------------------------------- C11
\* C11 as stated: a request that ended with a response other than 200 left
\* the stored document as if it had never been made: its PUT, if it issued
\* one, was not applied.
C11_Non200LeavesDocument ==
    \A r \in Req :
        (Len(resp[r]) = 1 /\ resp[r][1].status # 200) => ~WasApplied(r)

\* ------------------------------------------------------------- C12
\* Lines 30 and 40: the answer of the GET is decodable but its sha is empty
\* or missing; file.sha is falsy, and putFile leaves the sha out of the PUT.
GetWithoutSha(r) ==
    /\ pc[r] = "get"
    /\ ~Decode(store.content).threw
    /\ ~Decode(store.content).isNull
    /\ LET file == [sha |-> 0, content |-> store.content]
           data == Unshift(EnsureOrders(Decode(file.content).doc), loc[r].order)
       IN  loc' = [loc EXCEPT ![r].file = file,
                              ![r].put = PutBody(Encode(data), PutSha(file),
                                                 CommitMessage(loc[r].order))]
    /\ IssuePut(r)
    /\ pc' = [pc EXCEPT ![r] = "put"]
    /\ UNCHANGED <<env, store, now, req, resp, gets, applied>>

\* One request, with every input of Inputs, against a store whose GET may
\* answer without a version token.
NextSha ==
    \/ /\ pc[1] = "idle"
       /\ \E in \in Inputs, t \in Clock : Receive(1, in, t)
    \/ GetFile(1)
    \/ GetWithoutSha(1)
    \/ PutFile(1)
    \/ Respond(1)

SpecSha == Init /\ [][NextSha]_vars

\* C12 as stated: every PUT a request issued carries a sha field, and its
\* value is the token the GET of the same request returned, whatever that
\* token was.
C12_PutCarriesFetchedSha ==
    \A r \in Req :
        PutIssued(r) => loc[r].put.hasSha /\ loc[r].put.sha = loc[r].file.sha

\* ------------------------------------------------------------- C13
\* C13: a handled request whose method is neither POST nor OPTIONS was
\* answered 405 {error: 'Method not allowed'} with the CORS headers, made no
\* store call and left the document unchanged, whatever the configuration
\* and the body.
C13_OtherMethod405 ==
    \A r \in Req :
        (pc[r] # "idle" /\ req[r].method \notin {"POST", "OPTIONS"})
        => /\ AnsweredError(r, 405, "Method not allowed")
           /\ DOMAIN resp[r][1].headers = CorsNames
           /\ gets[r] = 0 /\ puts[r] = 0
           /\ ~WasApplied(r)

\* ------------------------------------------------------------- C14
\* C14: with the configuration present, a handled POST whose order has a
\* truthy fullName or a truthy phone was not answered 400 'Order must include
\* fullName and phone' and went on to the GET of the document.
C14_EitherFieldPasses ==
    \A r \in Req :
        ( /\ pc[r] # "idle"
          /\ req[r].method = "POST"
          /\ env.token /\ env.owner /\ env.repo
          /\ req[r].body.kind \in {"object", "objjson"}
          /\ \E f \in {"fullName", "phone"} :
                f \in DOMAIN req[r].body.obj /\ req[r].body.obj[f] # <<>> )
        => /\ ~AnsweredError(r, 400, "Order must include fullName and phone")
           /\ gets[r] = 1

\* ------------------------------------------------------------- C15
\* C15: with the configuration present, a handled POST whose body is a string
\* that is no JSON was answered 400 {error: 'Invalid JSON body'}, and one
\* without a body was answered 400 by the validation of the empty object;
\* neither made a store call.
C15_BadOrAbsentBody400 ==
    \A r \in Req :
        ( /\ pc[r] # "idle"
          /\ req[r].method = "POST"
          /\ env.token /\ env.owner /\ env.repo )
        => /\ req[r].body.kind = "badjson"
              => AnsweredError(r, 400, "Invalid JSON body") /\ gets[r] + puts[r] = 0
           /\ req[r].body.kind = "undefined"
              => /\ AnsweredError(r, 400, "Order must include fullName and phone")
                 /\ gets[r] + puts[r] = 0

\* ------------------------------------------------------------- C16
\* C16: the document a request wrote with its PUT has every top-level field
\* other than orders exactly as the document it fetched had it, and once the
\* PUT is applied the stored document has them so.
C16_OnlyOrdersChanges ==
    \A r \in Req :
        PutIssued(r)
        => /\ loc[r].put.content.kind = "object"
           /\ \A f \in DOMAIN loc[r].file.content.doc \ {"orders"} :
                 loc[r].put.content.doc[f] = loc[r].file.content.doc[f]
           /\ WasApplied(r)
              => \A f \in DOMAIN loc[r].file.content.doc \ {"orders"} :
                    store.content.doc[f] = loc[r].file.content.doc[f]

\* A request that fetched a document with a products field and some orders
\* was answered 200; the stored document has the same products and one order
\* more.
C16_Witness ==
    \E r \in Req :
        /\ Answered(r, 200)
        /\ WasApplied(r)
        /\ loc[r].file.content.doc.products = "p1"
        /\ store.content.doc.products = "p1"
        /\ Len(FetchedOrders(r)) = 1
        /\ Len(StoreOrders) = 2

\* ------------------------------------------------------------- C17
\* C17: a request issued its PUT only after its GET answered with success and
\* a content that decodes to a document; a request whose GET was issued and
\* that ended without a PUT - the GET answered without success, or its
\* content did not decode - was answered 500 {error: 'Failed to save order',
\* detail}; and no PUT is issued while the stored content does not decode.
C17_PutOnlyAfterDecodedGet ==
    \A r \in Req :
        /\ PutIssued(r)
           => /\ gets[r] = 1
              /\ loc[r].file.sha >= 1
              /\ loc[r].file.content.kind = "object"
        /\ (gets[r] = 1 /\ ~PutIssued(r) /\ pc[r] # "get")
           => /\ AnsweredError(r, 500, "Failed to save order")
              /\ "detail" \in DOMAIN resp[r][1].body
        /\ (gets[r] = 1 /\ store.content.kind # "object")
           => /\ puts[r] = 0
              /\ pc[r] \in {"get", "done"}

\* The GET of a request found a content that does not decode; the request
\* was answered 500 with the detail of the decoding error and issued no PUT.
C17_Witness ==
    \E r \in Req :
        /\ store.content.kind = "corrupt"
        /\ gets[r] = 1
        /\ puts[r] = 0
        /\ AnsweredError(r, 500, "Failed to save order")
        /\ resp[r][1].body.detail = "document not decodable"

\* ------------------------------------------------------------- C18
\* Two POSTs of the same valid order, one of them with a Referer that is no
\* URL.
LiveInputs ==
    {[method |-> "POST", origin |-> NoHeader, Referer |-> ref,
      body |-> [kind |-> "object", obj |-> OrderA]] : ref \in {NoHeader, "not a url"}}

NextLive ==
    \/ \E r \in Req :
          /\ NextToArrive(r)
          /\ \E in \in LiveInputs, t \in Clock : Receive(r, in, t)
    \/ \E r \in Req : GetFile(r)
    \/ \E r \in Req : PutFile(r)
    \/ \E r \in Req : Respond(r)

\* The store answers every GET and every PUT in the end, and the handler
\* goes on when its await returns (lines 30, 46 and 106-112).
StoreAnswers ==
    \A r \in Req : WF_vars(GetFile(r)) /\ WF_vars(PutFile(r)) /\ WF_vars(Respond(r))

SpecLive == InitConc /\ [][NextLive]_vars /\ StoreAnswers

\* A request between its arrival and its end waits for nothing but the
\* answer to its own store call.
WaitsForStoreOnly(r) ==
    pc[r] \in {"get", "put", "putresp"}
    => ENABLED (GetFile(r) \/ PutFile(r) \/ Respond(r))

\* C18: every request that arrived sends its response in the end, after at
\* most one GET and one PUT and waiting for no other request; a request whose
\* PUT the store refused for the stale version is answered 500.
C18_RunsToCompletion ==
    \A r \in Req :
        /\ [](gets[r] <= 1 /\ puts[r] <= 1 /\ WaitsForStoreOnly(r))
        /\ (pc[r] # "idle") ~> (Len(resp[r]) = 1)
        /\ (loc[r].putStatus = 409) ~> AnsweredError(r, 500, "Failed to save order")

\* The same of the requests that line 54 lets through.
RunsToCompletionUnlessThrown ==
    \A r \in Req :
        /\ [](gets[r] <= 1 /\ puts[r] <= 1 /\ WaitsForStoreOnly(r))
        /\ (pc[r] \notin {"idle", "crashed"}) ~> (Len(resp[r]) = 1)
        /\ (loc[r].putStatus = 409) ~> AnsweredError(r, 500, "Failed to save order")

\* ------------------------------------------------------------- C19
\* Request r sent an order without an id and was answered 200, its order
\* being in the stored document.
AssignedAndStored(r) ==
    /\ "id" \notin DOMAIN SentOrder(r)
    /\ WasApplied(r)
    /\ Answered(r, 200)
    /\ \E i \in 1 .. Len(StoreOrders) : StoreOrders[i] = loc[r].order

\* C19 as stated: the ids of the stored orders of any two successful POSTs
\* that sent no id are distinct, the two being handled in the same
\* millisecond or not.
C19_DistinctIds ==
    \A a, b \in Req :
        (a # b /\ AssignedAndStored(a) /\ AssignedAndStored(b))
        => loc[a].order.id # loc[b].order.id

\* C19, amended: the ids of the stored orders of two successful POSTs that
\* sent no id are distinct when the two requests read different values of the
\* millisecond clock, and the same when they read the same value.
C19_DistinctAcrossMilliseconds ==
    \A a, b \in Req :
        (a # b /\ AssignedAndStored(a) /\ AssignedAndStored(b))
        => (loc[a].order.id = loc[b].order.id <=> loc[a].stamp = loc[b].stamp)

\* Three POSTs without an id were answered 200, two of them handled in
\* millisecond 9 and one in millisecond 10; the stored document holds 'ord-10'
\* above 'ord-9' twice.
C19_Witness ==
    /\ \A r \in 1 .. 3 : AssignedAndStored(r)
    /\ applied = <<1, 2, 3>>
    /\ loc[1].stamp = 9 /\ loc[2].stamp = 9 /\ loc[3].stamp = 10
    /\ Len(StoreOrders) >= 3
    /\ StoreOrders[1].id = <<"o", "r", "d", "-", "1", "0">>
    /\ StoreOrders[2].id = <<"o", "r", "d", "-", "9">>
    /\ StoreOrders[3].id = <<"o", "r", "d", "-", "9">>

\* ------------------------------------------------------------- C20
\* C20: when the document a request fetched has no orders field, or one that
\* is no sequence, the document its PUT carries has an orders sequence holding
\* the new order and nothing else; the PUT carries the fetched version and
\* the commit message as for any other document, and once it is applied the
\* request is answered 200 with the order's id or, the answer of the PUT not
\* being readable, 500.
C20_NoOrdersMeansEmpty ==
    \A r \in Req :
        (PutIssued(r) /\ loc[r].file.content.doc.orders.kind # "array")
        => /\ loc[r].put.content.kind = "object"
           /\ loc[r].put.content.doc.orders = [kind |-> "array", items |-> <<loc[r].order>>]
           /\ loc[r].put.sha = loc[r].file.sha
           /\ loc[r].put.message = AddOrderPrefix \o loc[r].order.id
           /\ (WasApplied(r) /\ pc[r] = "done")
              => \/ Answered(r, 200) /\ resp[r][1].body.id = loc[r].order.id
                 \/ AnsweredError(r, 500, "Failed to save order")

\* A request fetched a document whose orders field is a string and was
\* answered 200; the stored document's orders are the new order alone.
C20_Witness ==
    \E r \in Req :
        /\ loc[r].file.content.kind = "object"
        /\ loc[r].file.content.doc.orders.kind = "string"
        /\ Answered(r, 200)
        /\ store.content.doc.orders = [kind |-> "array", items |-> <<loc[r].order>>]

====
